---- MODULE Spec2Model ----
(***************************************************************************)
(* A model of Haystack.js (version 2.2): the fuzzy search engine made of   *)
(* Haystack.prototype.search and its private helpers.                      *)
(*                                                                         *)
(* A JavaScript string is a sequence of one-character strings, so that     *)
(* indexOf, split, trim, toLowerCase, charAt and slice are computed, not   *)
(* assumed.  A source is a record [type, vals]: type is what getDataType   *)
(* answers ("array", "object" or "null") and vals are the elements of the  *)
(* array, or the values of the object in key iteration order.  The state   *)
(* is what a caller of the library holds: an engine instance, a source,    *)
(* and the call of search that is running or has just finished.            *)
(***************************************************************************)
EXTENDS Integers, Sequences, FiniteSets, TLC

(* ---------------------------- bounds ----------------------------------- *)
MaxQueryWords == 2    \* words in a query
MaxSourceLen == 2     \* entries of a source
MaxLimit == 2         \* the largest limit asked for
MaxFlexibility == 1   \* the largest flexibility set through the options

RECURSIVE ListsUpTo(_, _)
ListsUpTo(elems, n) ==
  IF n = 0 THEN {<<>>}
  ELSE LET shorter == ListsUpTo(elems, n - 1)
       IN  shorter \cup {Append(l, e) : l \in shorter, e \in elems}

(* ----------------------- JavaScript built-ins -------------------------- *)
Min2(a, b) == IF a < b THEN a ELSE b
Max2(a, b) == IF a > b THEN a ELSE b

(* String.prototype.toLowerCase *)
LowerChar(c) == IF c = "A" THEN "a" ELSE c
toLowerCase(str) == [i \in 1..Len(str) |-> LowerChar(str[i])]

(* String.prototype.trim *)
RECURSIVE TrimStart(_)
TrimStart(str) ==
  IF str # <<>> /\ Head(str) = " " THEN TrimStart(Tail(str)) ELSE str
RECURSIVE TrimEnd(_)
TrimEnd(str) ==
  IF str # <<>> /\ str[Len(str)] = " "
  THEN TrimEnd(SubSeq(str, 1, Len(str) - 1))
  ELSE str
trim(str) == TrimEnd(TrimStart(str))

(* String.prototype.indexOf(needle) != -1 *)
Contains(str, needle) ==
  \E k \in 0..(Len(str) - Len(needle)) :
    SubSeq(str, k + 1, k + Len(needle)) = needle

(* String.prototype.split(" "): the empty string splits into [""] *)
RECURSIVE SplitFrom(_, _, _)
SplitFrom(str, cur, acc) ==
  IF str = <<>> THEN Append(acc, cur)
  ELSE IF Head(str) = " " THEN SplitFrom(Tail(str), <<>>, Append(acc, cur))
  ELSE SplitFrom(Tail(str), Append(cur, Head(str)), acc)

(* Array.prototype.join(sep) *)
RECURSIVE Join(_, _)
Join(words, sep) ==
  IF words = <<>> THEN <<>>
  ELSE IF Len(words) = 1 THEN words[1]
  ELSE words[1] \o sep \o Join(Tail(words), sep)

(* slice with its end taken as the last index kept, not the first dropped *)
sliceThroughEnd(arr, limit) ==
  IF limit >= 0 THEN SubSeq(arr, 1, Min2(limit + 1, Len(arr)))
  ELSE SubSeq(arr, 1, Max2(Len(arr) + limit + 1, 0))

(* Array.prototype.slice(0, limit): a negative end counts from the end *)
slice(arr, limit) ==
  IF limit >= 0 THEN SubSeq(arr, 1, Min2(limit, Len(arr)))
  ELSE SubSeq(arr, 1, Max2(Len(arr) + limit, 0))

(* String.prototype.replace(exclusions, ""): a global one-character        *)
(* pattern removes every occurrence, a string pattern the first one.       *)
RECURSIVE RemoveFirst(_, _)
RemoveFirst(str, ch) ==
  IF str = <<>> THEN <<>>
  ELSE IF Head(str) = ch THEN Tail(str)
  ELSE <<Head(str)>> \o RemoveFirst(Tail(str), ch)
replace(str, exclusions) ==
  IF exclusions.global THEN SelectSeq(str, LAMBDA c : c # exclusions.pattern)
  ELSE RemoveFirst(str, exclusions.pattern)

(* --------------------------- private methods --------------------------- *)

(* What a "return;" without a value, or a read past the end, yields. *)
Undefined == -1

(* JavaScript's relational operators: a comparison with undefined is false *)
JsGt(a, b) == a # Undefined /\ b # Undefined /\ a > b
JsLe(a, b) == a # Undefined /\ b # Undefined /\ a <= b
JsGe(a, b) == a # Undefined /\ b # Undefined /\ a >= b

(* String.prototype.charAt(k), k counted from 0: "" past the end *)
charAt(str, k) == IF k + 1 \in 1..Len(str) THEN str[k + 1] ELSE ""

minimum(a, b, c) ==
  LET min1 == IF b < a THEN b ELSE a
  IN  IF c < min1 THEN c ELSE min1

(* Row i of the cost table from row i-1 (prev); a row is stored from       *)
(* column 0, so column j is element j+1.  cur holds columns 0..j-1.        *)
RECURSIVE CostRow(_, _, _, _, _)
CostRow(prev, x, str2, m, cur) ==
  LET j == Len(cur)
      y == charAt(str2, j - 1)
      cell == IF x = y THEN prev[j]
              ELSE 1 + minimum(prev[j], cur[j], prev[j + 1])
  IN  IF j > m THEN cur ELSE CostRow(prev, x, str2, m, Append(cur, cell))

RECURSIVE CostRows(_, _, _, _, _, _)
CostRows(prev, i, n, m, str1, str2) ==
  IF i > n THEN prev
  ELSE CostRows(CostRow(prev, charAt(str1, i - 1), str2, m, <<i>>),
                i + 1, n, m, str1, str2)

(* levenshtein(word1, word2): both table dimensions are word1.length *)
levenshtein(word1, word2) ==
  LET n == Len(word1)
      m == Len(word1)
  IN  IF n = 0 THEN Undefined
      ELSE IF m = 0 THEN Undefined
      ELSE CostRows([j \in 1..(m + 1) |-> j - 1], 1, n, m, word1, word2)[m + 1]

(* sortResults: one pass of the for loop, from index i (counted from 1) *)
RECURSIVE SortPass(_, _, _)
SortPass(results, query, i) ==
  IF i > Len(results) THEN [results |-> results, swapped |-> FALSE]
  ELSE IF /\ results[i] # <<>>
          /\ i + 1 <= Len(results)
          /\ results[i + 1] # <<>>
          /\ JsGt(levenshtein(query, results[i]),
                  levenshtein(query, results[i + 1]))
       THEN LET exchanged == [results EXCEPT ![i] = results[i + 1],
                                             ![i + 1] = results[i]]
            IN  [SortPass(exchanged, query, i + 1) EXCEPT !.swapped = TRUE]
       ELSE SortPass(results, query, i + 1)

(* sortResults: passes repeat until one makes no swap *)
RECURSIVE sortResults(_, _)
sortResults(results, query) ==
  LET pass == SortPass(results, query, 1)
  IN  IF pass.swapped THEN sortResults(pass.results, query) ELSE pass.results

(* filter(fn, source) with getSimilarWords' callback: the callback answers *)
(* sourceWord itself, so an empty sourceWord is a falsy answer.            *)
SimilarWord(input, sourceWord, threshold) ==
  LET levDist == levenshtein(input, sourceWord)
  IN  JsGe(levDist, 0) /\ JsLe(levDist, threshold) /\ sourceWord # <<>>

filter(input, source, threshold) ==
  SelectSeq(source, LAMBDA word : SimilarWord(input, word, threshold))

(* getSimilarWords(input, source, null, threshold): no limit, all matches *)
getSimilarWords(input, source, threshold) ==
  sortResults(filter(input, source, threshold), input)

(* Array.prototype.indexOf(item), counted from 1 *)
IndexOf(arr, item) ==
  CHOOSE k \in 1..Len(arr) :
    arr[k] = item /\ \A h \in 1..(k - 1) : arr[h] # item

RECURSIVE UniqueFrom(_, _)
UniqueFrom(arr, pos) ==
  IF pos > Len(arr) THEN <<>>
  ELSE (IF IndexOf(arr, arr[pos]) = pos THEN <<arr[pos]>> ELSE <<>>)
       \o UniqueFrom(arr, pos + 1)

(* the filter testing arr.indexOf(item) != -1, which every item passes *)
createArrayOfFound(arr) ==
  SelectSeq(arr, LAMBDA item : \E k \in 1..Len(arr) : arr[k] = item)

createUniqueArray(arr) == UniqueFrom(arr, 1)

getDataType(source) == source.type

StopWords ==
  { <<"t", "h", "e">>, <<"a">>, <<"t", "o">>, <<"o", "n">>, <<"i", "n">>,
    <<"i", "s">>, <<"a", "n", "d">> }

IsStopWord(word) == toLowerCase(word) \in StopWords

tokenize(input) == SplitFrom(input, <<>>, <<>>)

(* the switch on words[i] itself, without toLowerCase() *)
removeStopWordsAsTyped(query) ==
  Join(SelectSeq(SplitFrom(query, <<>>, <<>>), LAMBDA w : w \notin StopWords),
       <<" ">>)

removeStopWords(query) ==
  Join(SelectSeq(SplitFrom(query, <<>>, <<>>), LAMBDA w : ~IsStopWord(w)),
       <<" ">>)

(* ---------------------------- public methods --------------------------- *)

(* exclusions: null by default, falsy for "if( exclusions )" *)
NoExclusions == [pattern |-> "", global |-> FALSE]

defaults ==
  [caseSensitive |-> FALSE, flexibility |-> 2, stemming |-> FALSE,
   exclusions |-> NoExclusions, ignoreStopWords |-> FALSE]

(* What search hands back: null, an array, or a thrown TypeError *)
Null == [kind |-> "null", list |-> <<>>]
List(results) == [kind |-> "list", list |-> results]
TypeError == [kind |-> "error", list |-> <<>>]

(* "Prepare query", lines 58-64 *)
Prepared(options, query) ==
  LET unstopped == IF options.ignoreStopWords THEN removeStopWords(query)
                   ELSE query
  IN  IF options.exclusions # NoExclusions
      THEN replace(unstopped, options.exclusions)
      ELSE unstopped

(* lines 66-79: the query after the case handling *)
Cased(options, query, source) ==
  IF options.caseSensitive THEN trim(query)
  ELSE IF getDataType(source) \in {"array", "object"}
       THEN toLowerCase(trim(query))
       ELSE query

(* lines 66-79: tokens is assigned on every branch but the one taken for a *)
(* source that is neither an array nor an object                           *)
TokensAssigned(options, source) ==
  options.caseSensitive \/ getDataType(source) \in {"array", "object"}

(* lines 70-79: the candidates the matcher reads *)
Folded(options, source) ==
  IF ~options.caseSensitive /\ getDataType(source) \in {"array", "object"}
  THEN [i \in 1..Len(source.vals) |-> toLowerCase(source.vals[i])]
  ELSE source.vals

(* lines 75-79: an object is folded in place, an array into a copy *)
SourceAfter(options, source) ==
  IF ~options.caseSensitive /\ getDataType(source) = "object"
  THEN [source EXCEPT !.vals = Folded(options, source)]
  ELSE source

(* lines 85-86 *)
Stem(token) ==
  IF token # <<>> /\ token[Len(token)] = "s"
  THEN SubSeq(token, 1, Len(token) - 1)
  ELSE token

(* lines 81-93 *)
Tokens(options, cased) ==
  LET tokens == tokenize(cased)
  IN  IF options.stemming THEN [i \in 1..Len(tokens) |-> Stem(tokens[i])]
      ELSE tokens

FinalQuery(options, cased) ==
  IF options.stemming THEN Join(Tokens(options, cased), <<" ">>) ELSE cased

(* the three tiers *)
Basic(value, query) == Contains(value, query)
AllFound(value, tokens) ==
  \A j \in 1..Len(tokens) : Contains(value, tokens[j])
Close(value, query, flexibility) ==
  JsLe(levenshtein(toLowerCase(query), toLowerCase(value)), flexibility)

(* lines 99-131 *)
SearchArray(values, query, tokens, flexibility) ==
  SelectSeq(values, LAMBDA v : Basic(v, query))
  \o SelectSeq(values, LAMBDA v : AllFound(v, tokens))
  \o (IF flexibility > 0 THEN getSimilarWords(query, values, flexibility)
      ELSE <<>>)

(* lines 133-161 *)
RECURSIVE SearchObject(_, _, _, _)
SearchObject(values, query, tokens, flexibility) ==
  IF values = <<>> THEN <<>>
  ELSE LET value == Head(values)
       IN  (IF Basic(value, query) THEN <<value>> ELSE <<>>)
           \o (IF AllFound(value, tokens) THEN <<value>> ELSE <<>>)
           \o (IF flexibility > 0 /\ Close(value, query, flexibility)
               THEN <<value>> ELSE <<>>)
           \o SearchObject(Tail(values), query, tokens, flexibility)

Matches(options, source, query, tokens) ==
  IF getDataType(source) = "array"
  THEN SearchArray(Folded(options, source), query, tokens, options.flexibility)
  ELSE IF getDataType(source) = "object"
  THEN SearchObject(Folded(options, source), query, tokens,
                    options.flexibility)
  ELSE <<>>

(* results == "": an array is compared through its toString, join(",") *)
IsEmptyString(results) == Join(results, <<",">>) = <<>>

(* Haystack.prototype.search up to the slice of line 167: the outcome with *)
(* the whole ranked list, the final query searched for and the caller's    *)
(* source when the call is done                                            *)
Ranked(options, query, source) ==
  IF query = <<>>
  THEN [ret |-> Null, final |-> query, source |-> source]
  ELSE
    LET cased == Cased(options, Prepared(options, query), source)
    IN  IF options.stemming /\ ~TokensAssigned(options, source)
        THEN [ret |-> TypeError, final |-> cased, source |-> source]
        ELSE
          LET final == FinalQuery(options, cased)
              results == Matches(options, source, final,
                                 Tokens(options, cased))
          IN  [ret |-> IF IsEmptyString(results) THEN Null
                       ELSE List(sortResults(createUniqueArray(results),
                                             final)),
               final |-> final,
               source |-> SourceAfter(options, source)]

(* line 167: .slice(0, limit) of the list returned *)
Limited(ret, limit) ==
  IF ret.kind = "list" THEN List(slice(ret.list, limit)) ELSE ret

(* Haystack.prototype.search( query, source, limit ) *)
search(options, query, source, limit) ==
  LET ranked == Ranked(options, query, source)
  IN  [ranked EXCEPT !.ret = Limited(ranked.ret, limit)]

(* extendDefaults(source, properties): own properties override *)
extendDefaults(source, properties) ==
  [property \in DOMAIN source |->
     IF property \in DOMAIN properties THEN properties[property]
     ELSE source[property]]

(* ------------------------------ the inputs ------------------------------ *)
(* The words queries are made of: a stop word, the suffix stemming strips, *)
(* which is also the pattern excluded, and a stop word in upper case.  A   *)
(* query is the empty string or some words with one space between them.    *)
QueryWords == {<<"a">>, <<"s">>, <<"A">>}
Queries ==
  {<<>>} \cup
  {Join(phrase, <<" ">>) : phrase \in ListsUpTo(QueryWords, MaxQueryWords) \ {<<>>}}
(* the candidate strings a source is made of *)
Words == {<<>>, <<"a">>, <<"A">>, <<"a", "s">>}
Limits == -1..MaxLimit
Exclusions == {NoExclusions, [pattern |-> "s", global |-> TRUE]}
Properties ==
  [caseSensitive : BOOLEAN, flexibility : 0..MaxFlexibility,
   stemming : BOOLEAN, exclusions : Exclusions, ignoreStopWords : BOOLEAN]
NoSource == [type |-> "null", vals |-> <<>>]
Sources ==
  {[type |-> t, vals |-> v] :
     t \in {"array", "object"}, v \in ListsUpTo(Words, MaxSourceLen)}
  \cup {NoSource}

(* ------------------------------ the state ------------------------------- *)
VARIABLES
  options,    \* this.options of the engine instance in use
  source,     \* the caller's source object
  original,   \* the caller's source as it was before the first call
  last        \* the engine's latest call of search: arguments and outcome

vars == <<options, source, original, last>>

NoCall ==
  [made |-> FALSE, query |-> <<>>, limit |-> 0, passed |-> NoSource,
   final |-> <<>>, ret |-> Null]

Init ==
  /\ options = defaults
  /\ source \in Sources
  /\ original = source
  /\ last = NoCall

(* new Haystack(properties), between two calls: the program is single-    *)
(* threaded, so no instance is made while a call is running                *)
Construct(properties) ==
  /\ ~last.made
  /\ options' = extendDefaults(defaults, properties)
  /\ UNCHANGED <<source, original, last>>

(* instance.search(query, source, limit), for every limit: the limit acts *)
(* on the ranked list only, which is worked out once for all the limits    *)
Search(query) ==
  /\ ~last.made
  /\ \E ranked \in {Ranked(options, query, source)} :
       \E limit \in Limits :
         /\ last' = [made |-> TRUE, query |-> query, limit |-> limit,
                     passed |-> source, final |-> ranked.final,
                     ret |-> Limited(ranked.ret, limit)]
         /\ source' = ranked.source
  /\ UNCHANGED <<options, original>>

(* the call is over: its arguments and locals are gone, the caller keeps   *)
(* the engine and the source                                               *)
Return ==
  /\ last.made
  /\ last' = NoCall
  /\ UNCHANGED <<options, source, original>>

Next ==
  \/ \E properties \in Properties : Construct(properties)
  \/ \E query \in Queries : Search(query)
  \/ Return

Spec == Init /\ [][Next]_vars

(* ------------------------------ the claims ------------------------------ *)

(* The Levenshtein distance itself: the least number of single-character   *)
(* insertions, deletions and substitutions that turn a into b.             *)
RECURSIVE EditDistance(_, _)
EditDistance(a, b) ==
  IF a = <<>> THEN Len(b)
  ELSE IF b = <<>> THEN Len(a)
  ELSE IF Head(a) = Head(b) THEN EditDistance(Tail(a), Tail(b))
  ELSE 1 + Min2(EditDistance(Tail(a), Tail(b)),
                Min2(EditDistance(Tail(a), b), EditDistance(a, Tail(b))))

Range(seq) == {seq[i] : i \in 1..Len(seq)}

ReturnedList == last.made /\ last.ret.kind = "list"

(* the query with the words that are stop words, whatever their case, left *)
(* out and the others kept in order, one space between them                *)
RECURSIVE KeptWords(_)
KeptWords(words) ==
  IF words = <<>> THEN <<>>
  ELSE IF \E stop \in StopWords :
            /\ Len(stop) = Len(Head(words))
            /\ \A i \in 1..Len(stop) : LowerChar(Head(words)[i]) = stop[i]
       THEN KeptWords(Tail(words))
       ELSE <<Head(words)>> \o KeptWords(Tail(words))

WithoutStopWords(query) == Join(KeptWords(SplitFrom(query, <<>>, <<>>)), <<" ">>)

(* the raw result list of the call: what the three tiers accepted *)
Accepted(opts, query, src) ==
  LET cased == Cased(opts, Prepared(opts, query), src)
  IN  Matches(opts, src, FinalQuery(opts, cased), Tokens(opts, cased))

(* C1: a returned list is in ascending order of the Levenshtein distance   *)
(* from the final normalized query: an earlier entry is never farther from *)
(* the query than a later one.                                             *)
C1_RankedByEditDistance ==
  ReturnedList =>
    \A i, j \in 1..Len(last.ret.list) :
      i < j => EditDistance(last.final, last.ret.list[i])
                 <= EditDistance(last.final, last.ret.list[j])

(* C2: a returned list is never longer than limit, for every integer       *)
(* limit, zero and the negative ones included.                             *)
C2_LimitRespected ==
  ReturnedList => Len(last.ret.list) <= last.limit

(* C2, amended: a returned list is never longer than limit when limit is   *)
(* zero or more.                                                           *)
C2_NonNegativeLimitRespected ==
  (ReturnedList /\ last.limit >= 0) => Len(last.ret.list) <= last.limit

(* a call whose limit cut the ranked list short, leaving something *)
C2_Witness ==
  /\ ReturnedList
  /\ last.limit >= 1
  /\ Len(last.ret.list) = last.limit
  /\ Len(createUniqueArray(Accepted(options, last.query, last.passed)))
       > last.limit

(* C3: no value occurs twice in a returned list. *)
C3_NoDuplicates ==
  ReturnedList =>
    \A i, j \in 1..Len(last.ret.list) :
      i # j => last.ret.list[i] # last.ret.list[j]

(* a list returned for a source whose two entries differ in case only, all *)
(* of the matches asked for                                                *)
C3_Witness ==
  /\ ReturnedList
  /\ ~options.caseSensitive
  /\ Len(last.passed.vals) = 2
  /\ last.passed.vals[1] # last.passed.vals[2]
  /\ toLowerCase(last.passed.vals[1]) = toLowerCase(last.passed.vals[2])
  /\ last.limit = 2
  /\ Len(last.ret.list) = 1

(* C4: every entry of a returned list is a value of the source exactly as  *)
(* the caller passed it, letter case included.                             *)
C4_OriginalValues ==
  ReturnedList =>
    \A i \in 1..Len(last.ret.list) :
      last.ret.list[i] \in Range(last.passed.vals)

(* C5: a call that returns gives null exactly when the query is empty or   *)
(* no candidate is accepted by any tier, and a list otherwise.             *)
C5_NullExactlyWhenNoMatch ==
  (last.made /\ last.ret.kind # "error") =>
    (last.ret = Null <=>
       (last.query = <<>> \/ Accepted(options, last.query, last.passed) = <<>>))

(* C6: with a non-empty query and a source that is neither a sequence nor  *)
(* a mapping, the call raises nothing and returns null.                    *)
C6_UnsupportedSourceIsNull ==
  (last.made /\ last.query # <<>> /\ getDataType(last.passed) = "null") =>
    last.ret = Null

(* C7: for non-empty strings the edit distance calculator gives the        *)
(* Levenshtein distance: checked on every pair the fuzzy tier of a call    *)
(* hands it, the final query and a candidate.                              *)
C7_LevenshteinIsEditDistance ==
  (last.made /\ last.final # <<>> /\ options.flexibility > 0) =>
    \A word \in Range(Folded(options, last.passed)) :
      word # <<>> => levenshtein(last.final, word)
                       = EditDistance(last.final, word)

(* C8: with ignoreStopWords, a call with a non-empty query returns what a  *)
(* call with the query without its stop words returns, also when nothing   *)
(* but stop words is in it.                                                *)
C8_StopWordsIgnored ==
  (/\ last.made
   /\ last.ret.kind # "error"
   /\ options.ignoreStopWords
   /\ last.query # <<>>) =>
    last.ret = search(options, WithoutStopWords(last.query), last.passed,
                      last.limit).ret

(* C8, amended: with ignoreStopWords, a call with a non-empty query that   *)
(* keeps at least one character once its stop words are left out returns   *)
(* what a call with the query without its stop words returns.              *)
C8_StopWordsIgnoredIfSomethingIsLeft ==
  (/\ last.made
   /\ last.ret.kind # "error"
   /\ options.ignoreStopWords
   /\ last.query # <<>>
   /\ WithoutStopWords(last.query) # <<>>) =>
    last.ret = search(options, WithoutStopWords(last.query), last.passed,
                      last.limit).ret

(* a query that loses a stop word, keeps another word and finds something *)
C8_Witness ==
  /\ ReturnedList
  /\ options.ignoreStopWords
  /\ WithoutStopWords(last.query) # last.query
  /\ trim(WithoutStopWords(last.query)) # <<>>
  /\ last.final # <<>>
  /\ last.ret.list # <<>>

(* C9: the caller's source is what it was before the first call, and each  *)
(* call returns what it would have returned on that first source.          *)
C9_SourceUntouched ==
  /\ source = original
  /\ last.made =>
       last.ret = search(options, last.query, original, last.limit).ret

(* C10: a sequence and a mapping holding the same values in the same order *)
(* give the same answer.                                                   *)
C10_SequenceAndMappingAgree ==
  (last.made /\ getDataType(last.passed) \in {"array", "object"}) =>
    search(options, last.query, [last.passed EXCEPT !.type = "array"],
           last.limit).ret
      = search(options, last.query, [last.passed EXCEPT !.type = "object"],
               last.limit).ret

====
